---- MODULE Spec2Model ----
(***************************************************************************)
(* OnionController-ESP32: a model of the firmware's three activities and   *)
(* the state they share.                                                   *)
(*                                                                         *)
(*   main task     app_main: boot (onion_config_init, onion_ble_init,      *)
(*                 onion_touch_init), then the scan loop over 16 channels  *)
(*   comms task    onion_comms_task: one byte of the host link per cycle,  *)
(*                 command dispatch, RAW telemetry                         *)
(*   NimBLE host   ble_gap_event: connect / disconnect callbacks           *)
(*                                                                         *)
(* Text (command lines, printf output) is a sequence of one-character      *)
(* strings; the NVS blob is a sequence of bytes laid out as the compiler   *)
(* lays out onion_key_t[16].                                               *)
(***************************************************************************)
EXTENDS Integers, Sequences, FiniteSets, TLC

(***************************************************************************)
(* Program constants                                                       *)
(***************************************************************************)
MUX_CHANNELS_COUNT == 16

DEFAULT_THRESHOLD == 3900

NO_CONN == 65535

LINE_SIZE == 128

REPORT_LEN == 8

OVERSAMPLE == 4

KEY_T_SIZE == 6

DELAY_ACTIVE == 10

DELAY_IDLE == 50

Channels == 0 .. (MUX_CHANNELS_COUNT - 1)

LUT_SIZE == KEY_T_SIZE * MUX_CHANNELS_COUNT

DefaultKeycodes ==
    << 26, 22, 4, 7, 44, 8, 11, 10, 20, 43, 79, 80, 82, 81, 31, 41 >>

DefaultLut ==
    [c \in Channels |->
        [keycode |-> DefaultKeycodes[c + 1],
         threshold |-> DEFAULT_THRESHOLD,
         is_pressed |-> FALSE]]

(***************************************************************************)
(* Bounds of the environment                                               *)
(***************************************************************************)
\* channels 0 .. NumActive-1 are the ones a finger comes near; the others
\* always read the idle level
NumActive == 2

\* connection handles the transport hands out are 1 .. MaxConnHandle
MaxConnHandle == 1

ActiveChannels == {c \in Channels : c < NumActive}

ConnHandles == 1 .. MaxConnHandle

\* the four raw readings adc1_get_raw returns during one oversampled sample
AdcBursts ==
    { << 500, 500, 500, 500 >>,
      << 4000, 4000, 4001, 4002 >> }

IdleBurst == << 4095, 4095, 4095, 4095 >>

(***************************************************************************)
(* Text helpers                                                            *)
(***************************************************************************)
DigitChars == << "0", "1", "2", "3", "4", "5", "6", "7", "8", "9" >>

IsDigit(ch) == \E d \in 1 .. 10 : DigitChars[d] = ch

DigitVal(ch) == (CHOOSE d \in 1 .. 10 : DigitChars[d] = ch) - 1

IsSpace(ch) == ch \in {" ", "\t"}

RECURSIVE FmtNat(_)
\* decimal digits of a natural number, most significant first
FmtNat(n) ==
    IF n < 10 THEN << DigitChars[n + 1] >>
    ELSE FmtNat(n \div 10) \o << DigitChars[(n % 10) + 1] >>

\* printf("%d") and printf("%u") of a value that fits the type
Fmt_d(n) == IF n < 0 THEN << "-" >> \o FmtNat(0 - n) ELSE FmtNat(n)

\* s starts with the text p
HasPrefix(s, p) == Len(s) >= Len(p) /\ SubSeq(s, 1, Len(p)) = p

RECURSIVE SkipSpace(_, _)
SkipSpace(s, i) ==
    IF i <= Len(s) /\ IsSpace(s[i]) THEN SkipSpace(s, i + 1) ELSE i

RECURSIVE ScanDigits(_, _, _)
\* accumulate the run of digits of s that starts at i
ScanDigits(s, i, acc) ==
    IF i <= Len(s) /\ IsDigit(s[i])
    THEN ScanDigits(s, i + 1, acc * 10 + DigitVal(s[i]))
    ELSE [val |-> acc, next |-> i]

\* one %d conversion of sscanf at position i of s: leading white space is
\* skipped, a sign is optional, at least one digit is required
ScanInt(s, i) ==
    LET j == SkipSpace(s, i)
        neg == j <= Len(s) /\ s[j] = "-"
        k == IF j <= Len(s) /\ s[j] \in {"-", "+"} THEN j + 1 ELSE j
    IN  IF k <= Len(s) /\ IsDigit(s[k])
        THEN LET d == ScanDigits(s, k, 0)
             IN  [ok |-> TRUE,
                  val |-> IF neg THEN 0 - d.val ELSE d.val,
                  next |-> d.next]
        ELSE [ok |-> FALSE, val |-> 0, next |-> k]

\* the literal character lit of a sscanf format at position i of s
MatchLit(s, i, lit) == i <= Len(s) /\ s[i] = lit

(***************************************************************************)
(* Command parsing (onion_comms_task)                                      *)
(***************************************************************************)
CONNECT_LINE == << "C", "O", "N", "N", "E", "C", "T" >>

DISCONNECT_LINE == << "D", "I", "S", "C", "O", "N", "N", "E", "C", "T" >>

SET_PREFIX == << "S", "E", "T", ":" >>

\* sscanf(line, "SET:%d,%d,%d", &ch, &thr, &key): n is the number of
\* conversions made; whatever follows the third integer is not looked at
ScanSet(s) ==
    LET none == [n |-> 0, ch |-> 0, thr |-> 0, key |-> 0]
    IN  IF ~HasPrefix(s, SET_PREFIX) THEN none
        ELSE LET a == ScanInt(s, Len(SET_PREFIX) + 1)
             IN  IF ~a.ok THEN none
                 ELSE IF ~MatchLit(s, a.next, ",")
                 THEN [none EXCEPT !.n = 1, !.ch = a.val]
                 ELSE LET b == ScanInt(s, a.next + 1)
                      IN  IF ~b.ok THEN [none EXCEPT !.n = 1, !.ch = a.val]
                          ELSE IF ~MatchLit(s, b.next, ",")
                          THEN [none EXCEPT !.n = 2, !.ch = a.val, !.thr = b.val]
                          ELSE LET c == ScanInt(s, b.next + 1)
                               IN  IF ~c.ok
                                   THEN [none EXCEPT !.n = 2, !.ch = a.val,
                                                     !.thr = b.val]
                                   ELSE [n |-> 3, ch |-> a.val,
                                         thr |-> b.val, key |-> c.val]

\* mutation of SetChannelOk: the upper limit is not checked
SetChannelNoUpper(ch) == ch >= 0

\* ch >= 0 && ch < 16
SetChannelOk(ch) == ch >= 0 /\ ch < MUX_CHANNELS_COUNT

\* the kind of command a non-empty line is dispatched as
CommandOf(s) ==
    IF s = CONNECT_LINE THEN "CONNECT"
    ELSE IF s = DISCONNECT_LINE THEN "DISCONNECT"
    ELSE IF HasPrefix(s, SET_PREFIX)
              /\ ScanSet(s).n = 3 /\ SetChannelOk(ScanSet(s).ch) THEN "SET"
    ELSE "IGNORED"

\* conversion of an int to uint16_t / uint8_t on assignment
ToU16(v) == v % 65536

ToU8(v) == v % 256

\* mutation of CfgLine: keycode and threshold printed in the other order
CfgLineSwapped(i, rec) ==
    << "C", "F", "G", ":" >> \o Fmt_d(i) \o << "," >> \o Fmt_d(rec.keycode)
        \o << "," >> \o Fmt_d(rec.threshold)

\* printf("CFG:%d,%d,%d\n", i, threshold, keycode), without the newline
CfgLine(i, rec) ==
    << "C", "F", "G", ":" >> \o Fmt_d(i) \o << "," >> \o Fmt_d(rec.threshold)
        \o << "," >> \o Fmt_d(rec.keycode)

RECURSIVE CfgDump(_, _)
\* the 16 lines printed by the CONNECT handshake, from channel i on
CfgDump(lut, i) ==
    IF i >= MUX_CHANNELS_COUNT THEN << >>
    ELSE << CfgLine(i, lut[i]) >> \o CfgDump(lut, i + 1)

RECURSIVE RawList(_, _)
RawList(raw, i) ==
    IF i >= MUX_CHANNELS_COUNT THEN << >>
    ELSE Fmt_d(raw[i]) \o (IF i = MUX_CHANNELS_COUNT - 1 THEN << >> ELSE << "," >>)
            \o RawList(raw, i + 1)

\* the telemetry line "RAW:v0,...,v15"
RawLine(raw) == << "R", "A", "W", ":" >> \o RawList(raw, 0)

\* mutation of Telemetry: the handshake flag is not consulted
TelemetryAlways(connected, raw) == << RawLine(raw) >>

\* what the telemetry section of one task cycle prints
Telemetry(connected, raw) == IF connected THEN << RawLine(raw) >> ELSE << >>

(***************************************************************************)
(* Keymap persistence (onion_config_init / onion_config_save)              *)
(***************************************************************************)
\* mutation of KeyBytes: the threshold written most significant byte first
KeyBytesBigEndian(rec) ==
    << rec.keycode, 0, rec.threshold \div 256, rec.threshold % 256,
       IF rec.is_pressed THEN 1 ELSE 0, 0 >>

\* memory image of one onion_key_t: keycode, padding, threshold (little
\* endian), is_pressed, padding.  Padding is written as 0 and never read.
KeyBytes(rec) ==
    << rec.keycode, 0, rec.threshold % 256, rec.threshold \div 256,
       IF rec.is_pressed THEN 1 ELSE 0, 0 >>

RECURSIVE LutBytesFrom(_, _)
LutBytesFrom(lut, i) ==
    IF i >= MUX_CHANNELS_COUNT THEN << >>
    ELSE KeyBytes(lut[i]) \o LutBytesFrom(lut, i + 1)

\* the sizeof(onion_lut) bytes nvs_set_blob is given
LutBytes(lut) == LutBytesFrom(lut, 0)

\* the table a memory image of sizeof(onion_lut) bytes is read as
LutOfBytes(mem) ==
    [c \in Channels |->
        [keycode |-> mem[KEY_T_SIZE * c + 1],
         threshold |-> mem[KEY_T_SIZE * c + 3] + 256 * mem[KEY_T_SIZE * c + 4],
         is_pressed |-> mem[KEY_T_SIZE * c + 5] # 0]]

\* the Durable Store entry "onion_lut": absent, or a blob of bytes
NotFound == [found |-> FALSE, bytes |-> << >>]

Blob(b) == [found |-> TRUE, bytes |-> b]

\* nvs_get_blob(handle, key, onion_lut, &required_size) with required_size =
\* sizeof(onion_lut): the error code and the table afterwards.  A stored blob
\* longer than the buffer is refused; a stored blob that fits is copied over
\* the start of the table.
GetBlob(store, lut, io_ok) ==
    IF ~store.found THEN [err |-> "ESP_ERR_NVS_NOT_FOUND", lut |-> lut]
    ELSE IF ~io_ok THEN [err |-> "ESP_FAIL", lut |-> lut]
    ELSE IF Len(store.bytes) > LUT_SIZE
    THEN [err |-> "ESP_ERR_NVS_INVALID_LENGTH", lut |-> lut]
    ELSE [err |-> "ESP_OK",
          lut |-> LutOfBytes(store.bytes
                     \o SubSeq(LutBytes(lut), Len(store.bytes) + 1, LUT_SIZE))]

\* the keycode and threshold columns of a table
Pairs(lut) == [c \in Channels |-> << lut[c].keycode, lut[c].threshold >>]

\* faults the Durable Store can show during one onion_config_save: none, a
\* failing nvs_open, a failing nvs_set_blob, a failing nvs_commit after which
\* the new blob is not in flash, a failing nvs_commit after which it is
SaveFaults == {"none", "open", "set_blob", "commit_lost", "commit_kept"}

\* mutation of ConfigSave: the blob is set but never committed to flash
ConfigSaveNoCommit(store, lut, fault) ==
    [err |-> IF fault = "none" THEN "ESP_OK" ELSE "ESP_FAIL", store |-> store,
     lut |-> lut]

\* mutation of ConfigSave: a failed save puts the table back to what the
\* store holds
ConfigSaveReloads(store, lut, fault) ==
    IF fault \in {"open", "set_blob", "commit_lost", "commit_kept"}
    THEN [err |-> "ESP_FAIL", store |-> store,
          lut |-> IF store.found /\ Len(store.bytes) = LUT_SIZE
                  THEN LutOfBytes(store.bytes) ELSE lut]
    ELSE [err |-> "ESP_OK", store |-> Blob(LutBytes(lut)), lut |-> lut]

\* onion_config_save(): the error code returned, the store afterwards, and
\* onion_lut afterwards (the function only passes it to nvs_set_blob)
ConfigSave(store, lut, fault) ==
    IF fault \in {"open", "set_blob", "commit_lost"}
    THEN [err |-> "ESP_FAIL", store |-> store, lut |-> lut]
    ELSE IF fault = "commit_kept"
    THEN [err |-> "ESP_FAIL", store |-> Blob(LutBytes(lut)), lut |-> lut]
    ELSE [err |-> "ESP_OK", store |-> Blob(LutBytes(lut)), lut |-> lut]

\* faults during onion_config_init: none, a failing nvs_open, an unreadable blob
LoadFaults == {"none", "open", "read"}

\* what the flash may hold at the first power-up: nothing, a blob shorter
\* than the table (one record of another layout), a blob longer than it
InitialStores ==
    { NotFound,
      Blob(<< 4, 0, 232, 3, 0, 0 >>),
      Blob(LutBytes(DefaultLut) \o << 0, 0, 0, 0, 0, 0 >>) }

(***************************************************************************)
(* HID report (send_key_report)                                            *)
(***************************************************************************)
\* mutation of NotConnected: the sentinel taken to be 0
NotConnectedZero(h) == h = 0

\* conn_handle == 0xFFFF
NotConnected(h) == h = NO_CONN

\* mutation of Report: the keycode is stored whatever pressed is
ReportUnconditional(keycode, pressed) ==
    [i \in 1 .. REPORT_LEN |-> IF i = 3 THEN keycode ELSE 0]

\* uint8_t report[8] = {0}; if (pressed) report[2] = keycode;
Report(keycode, pressed) ==
    [i \in 1 .. REPORT_LEN |-> IF i = 3 /\ pressed THEN keycode ELSE 0]

(***************************************************************************)
(* Sampling (onion_touch_read)                                             *)
(***************************************************************************)
RECURSIVE SumSeq(_)
SumSeq(q) == IF q = << >> THEN 0 ELSE Head(q) + SumSeq(Tail(q))

\* adc_raw = (uint16_t)(raw_sum >> 2) over the four readings of a burst
AdcRaw(burst) == ToU16(SumSeq(burst) \div OVERSAMPLE)

\* adc_raw < onion_lut[channel].threshold
Touched(adc_raw, threshold) == adc_raw < threshold

\* mutation of EdgeDetected: every call reports a change
EdgeAlways(current_state, last_state) == TRUE

\* current_state != last_states[channel]
EdgeDetected(current_state, last_state) == current_state # last_state

\* mutation of StoreState: the new state is written to every channel
StoreStateAll(states, channel, current_state) ==
    [c \in Channels |-> current_state]

\* last_states[channel] = current_state
StoreState(states, channel, current_state) ==
    [states EXCEPT ![channel] = current_state]

\* mutation of StoreRaw: the sample is written to every slot of the cache
StoreRawAll(raw, channel, adc_raw) ==
    [c \in Channels |-> adc_raw]

\* last_raw_values[channel] = adc_raw
StoreRaw(raw, channel, adc_raw) ==
    [raw EXCEPT ![channel] = adc_raw]

\* the bursts the front end can deliver on channel c when fingers come near
\* the channels of A only
Bursts(A, c) == IF c \in A THEN AdcBursts ELSE {IdleBurst}

(***************************************************************************)
(* State                                                                   *)
(***************************************************************************)
VARIABLES
    onion_lut,          \* onion_key_t onion_lut[16]
    last_states,        \* static bool last_states[16]
    last_raw_values,    \* uint16_t last_raw_values[16]
    conn_handle,        \* uint16_t conn_handle
    status_led,         \* level of STATUS_LED_GPIO
    is_app_connected,   \* static bool is_app_connected
    line,               \* char line[128] up to line_ptr
    stdin,              \* bytes of the host link not yet read
    out,                \* lines printed by the latest comms task cycle
    nvs,                \* Durable Store entry "onion_lut"
    pc_main,            \* position of app_main
    channel_idx,        \* app_main: loop variable
    activity_detected,  \* app_main: local
    is_pressed,         \* app_main: local
    arg_keycode,        \* send_key_report: parameter keycode
    report,             \* send_key_report: local report[8]
    pc_comms,           \* position of onion_comms_task, "none" before creation
    set_args,           \* onion_comms_task: locals ch, thr, key
    hid_tx,             \* ble_gatts_notify_custom call made by the latest main step
    sk_status,          \* how send_key_report ended in the latest main step
    delay_ms,           \* vTaskDelay argument of the latest main step, 0 if none
    load_err,           \* outcome of nvs_get_blob at boot
    save_err,           \* return value of the latest onion_config_save, or "NONE"
    dispatched,         \* command line dispatched in the latest comms cycle
    pre_lut,            \* onion_lut when the latest comms cycle began
    pre_nvs,            \* the Durable Store entry when that cycle began
    last_edge,          \* state carried by the latest edge of each channel
    last_class,         \* latest value returned by onion_touch_read per channel
    saved_lut,          \* table written by the latest save, if known
    saved_states,       \* last_states when that save happened
    sweep_edges,        \* channels that produced an edge in the current sweep
    sweep_sent,         \* whether a report of the current sweep reached notify
    used_thr,           \* threshold that classified the edge of the scan step, else 0
    save_failed,        \* whether a save of this process has returned an error
    sampled             \* latest sample taken on each channel, 0 before the first

vars ==
    << onion_lut, last_states, last_raw_values, conn_handle, status_led,
       is_app_connected, line, stdin, out, nvs, pc_main, channel_idx,
       activity_detected, is_pressed, arg_keycode, report, pc_comms, set_args,
       hid_tx, sk_status, delay_ms, load_err, save_err, dispatched, pre_lut,
       pre_nvs, last_edge, last_class, saved_lut, saved_states, sweep_edges,
       sweep_sent, used_thr, save_failed, sampled >>

touch_vars == << last_states, last_raw_values, last_edge, last_class, sampled >>

ble_vars == << conn_handle, status_led >>

comms_vars ==
    << is_app_connected, line, out, pc_comms, set_args, dispatched, pre_lut,
       pre_nvs >>

main_vars ==
    << pc_main, channel_idx, activity_detected, is_pressed, arg_keycode, report,
       hid_tx, sk_status, delay_ms, sweep_edges, sweep_sent,
                    used_thr >>

store_vars == << nvs, save_err, saved_lut, saved_states, save_failed >>

line_ptr == Len(line)

NoCall == [conn_handle |-> NO_CONN, report |-> << >>, keycode |-> 0, pressed |-> FALSE,
           made |-> FALSE]

NoArgs == [ch |-> 0, thr |-> 0, key |-> 0]

NoReport == << >>

AllFalse == [c \in Channels |-> FALSE]

NoEdges == [c \in Channels |-> "none"]

EdgeName(b) == IF b THEN "press" ELSE "release"

NoSaved == [known |-> FALSE, lut |-> DefaultLut]

\* the RAM of a freshly started process
RamInit ==
    /\ onion_lut = DefaultLut
    /\ last_states = AllFalse
    /\ last_raw_values = [c \in Channels |-> 0]
    /\ sampled = [c \in Channels |-> 0]
    /\ conn_handle = NO_CONN
    /\ status_led = 0
    /\ is_app_connected = FALSE
    /\ line = << >>
    /\ out = << >>
    /\ pc_main = "config_init"
    /\ channel_idx = 0
    /\ activity_detected = FALSE
    /\ is_pressed = FALSE
    /\ arg_keycode = 0
    /\ report = NoReport
    /\ pc_comms = "none"
    /\ set_args = NoArgs
    /\ hid_tx = NoCall
    /\ sk_status = "idle"
    /\ delay_ms = 0
    /\ load_err = "NONE"
    /\ save_err = "NONE"
    /\ dispatched = << >>
    /\ pre_lut = DefaultLut
    /\ last_edge = NoEdges
    /\ last_class = AllFalse
    /\ sweep_edges = {}
    /\ sweep_sent = FALSE
    /\ used_thr = 0
    /\ save_failed = FALSE

Init ==
    /\ RamInit
    /\ stdin = << >>
    /\ nvs \in InitialStores
    /\ pre_nvs = nvs
    /\ saved_lut = NoSaved
    /\ saved_states = AllFalse

(***************************************************************************)
(* Boot (app_main, lines 39-49)                                            *)
(***************************************************************************)
\* the record of what the flash was last given, after a save that returned sav
SavedAfter(sav, lut) ==
    IF sav.err = "ESP_OK" THEN [known |-> TRUE, lut |-> lut]
    ELSE IF sav.store = nvs THEN saved_lut
    ELSE NoSaved

\* onion_config_init(): load the table, provisioning the store on first boot
ConfigInit ==
    /\ pc_main = "config_init"
    /\ \E fault \in LoadFaults, sfault \in SaveFaults :
          LET got == GetBlob(nvs, onion_lut, fault # "read")
              sav == ConfigSave(nvs, got.lut, sfault)
          IN  IF fault = "open"
              THEN /\ load_err' = "OPEN_FAILED"
                   /\ UNCHANGED << onion_lut, store_vars >>
              ELSE /\ load_err' = got.err
                   /\ onion_lut' =
                         IF got.err = "ESP_ERR_NVS_NOT_FOUND"
                         THEN sav.lut ELSE got.lut
                   /\ IF got.err = "ESP_ERR_NVS_NOT_FOUND"
                      THEN /\ nvs' = sav.store
                           /\ save_err' = sav.err
                           /\ save_failed' = (save_failed \/ sav.err # "ESP_OK")
                           /\ saved_lut' = SavedAfter(sav, onion_lut)
                           /\ saved_states' =
                                 IF sav.err = "ESP_OK" THEN last_states
                                 ELSE saved_states
                      ELSE UNCHANGED store_vars
    /\ pc_main' = "ble_init"
    /\ UNCHANGED << touch_vars, ble_vars, comms_vars, stdin, channel_idx,
                    activity_detected, is_pressed, arg_keycode, report, hid_tx,
                    sk_status, delay_ms, sweep_edges, sweep_sent,
                    used_thr >>

\* onion_ble_init(): the NimBLE host task and the comms task are created
BleInit ==
    /\ pc_main = "ble_init"
    /\ pc_main' = "touch_init"
    /\ pc_comms' = "read"
    /\ UNCHANGED << onion_lut, touch_vars, ble_vars, is_app_connected, line, out,
                    set_args, dispatched, pre_lut, pre_nvs, stdin, store_vars,
                    load_err, channel_idx, activity_detected, is_pressed, arg_keycode,
                    report, hid_tx, sk_status, delay_ms, sweep_edges, sweep_sent,
                    used_thr >>

\* onion_touch_init(), then the first sweep begins
TouchInit ==
    /\ pc_main = "touch_init"
    /\ pc_main' = "has_changed"
    /\ channel_idx' = 0
    /\ activity_detected' = FALSE
    /\ UNCHANGED << onion_lut, touch_vars, ble_vars, comms_vars, stdin,
                    store_vars, load_err, is_pressed, arg_keycode, report,
                    hid_tx, sk_status, delay_ms, sweep_edges, sweep_sent,
                    used_thr >>

TasksCreated == pc_comms # "none"

(***************************************************************************)
(* Scan loop (app_main, lines 51-77)                                       *)
(***************************************************************************)
\* mutation of NextChannel: the loop variable is not advanced
NextChannelStuck ==
    /\ channel_idx' = channel_idx
    /\ pc_main' = "has_changed"

\* channel_idx++ and the loop test of the for statement
NextChannel ==
    /\ channel_idx' = channel_idx + 1
    /\ pc_main' = IF channel_idx + 1 < MUX_CHANNELS_COUNT
                  THEN "has_changed" ELSE "delay"

\* what a sweep has collected when channel_idx is about to be scanned: nothing
\* at channel 0, where a sweep begins
SweepSoFar(S) == IF channel_idx = 0 THEN {} ELSE S

\* onion_touch_has_changed(channel_idx) as called at line 60
HasChanged(A) ==
    /\ pc_main = "has_changed"
    /\ \E burst \in Bursts(A, channel_idx) :
          LET adc_raw == AdcRaw(burst)
              current_state == Touched(adc_raw, onion_lut[channel_idx].threshold)
          IN  /\ last_raw_values' =
                    StoreRaw(last_raw_values, channel_idx, adc_raw)
              /\ sampled' = [sampled EXCEPT ![channel_idx] = adc_raw]
              /\ last_class' = [last_class EXCEPT ![channel_idx] = current_state]
              /\ IF EdgeDetected(current_state, last_states[channel_idx])
                 THEN /\ last_states' =
                            StoreState(last_states, channel_idx, current_state)
                      /\ last_edge' =
                            [last_edge EXCEPT
                                ![channel_idx] = EdgeName(current_state)]
                      /\ sweep_edges' = SweepSoFar(sweep_edges) \cup {channel_idx}
                      /\ used_thr' = onion_lut[channel_idx].threshold
                      /\ pc_main' = "touch_read"
                      /\ UNCHANGED channel_idx
                 ELSE /\ NextChannel
                      /\ sweep_edges' = SweepSoFar(sweep_edges)
                      /\ used_thr' = 0
                      /\ UNCHANGED << last_states, last_edge >>
    /\ sweep_sent' = (channel_idx # 0 /\ sweep_sent)
    /\ hid_tx' = NoCall
    /\ sk_status' = "idle"
    /\ delay_ms' = 0
    /\ UNCHANGED << onion_lut, ble_vars, comms_vars, stdin, store_vars, load_err,
                    activity_detected, is_pressed, arg_keycode, report >>

\* bool is_pressed = onion_touch_read(channel_idx), line 61
TouchRead(A) ==
    /\ pc_main = "touch_read"
    /\ \E burst \in Bursts(A, channel_idx) :
          LET adc_raw == AdcRaw(burst)
              touched == Touched(adc_raw, onion_lut[channel_idx].threshold)
          IN  /\ last_raw_values' =
                    StoreRaw(last_raw_values, channel_idx, adc_raw)
              /\ sampled' = [sampled EXCEPT ![channel_idx] = adc_raw]
              /\ last_class' = [last_class EXCEPT ![channel_idx] = touched]
              /\ is_pressed' = touched
    /\ pc_main' = "send_key_report"
    /\ hid_tx' = NoCall
    /\ sk_status' = "idle"
    /\ delay_ms' = 0
    /\ UNCHANGED << onion_lut, last_states, last_edge, ble_vars, comms_vars,
                    stdin, store_vars, load_err, channel_idx, activity_detected,
                    arg_keycode, report, sweep_edges, sweep_sent,
                    used_thr >>

\* send_key_report(onion_lut[channel_idx].keycode, is_pressed), line 64, up to
\* the building of the report (onion_ble.c lines 141-145)
SendKeyReport ==
    /\ pc_main = "send_key_report"
    /\ arg_keycode' = onion_lut[channel_idx].keycode
    /\ IF NotConnected(conn_handle)
       THEN /\ sk_status' = "returned_early"
            /\ activity_detected' = TRUE
            /\ NextChannel
            /\ UNCHANGED report
       ELSE /\ report' = Report(onion_lut[channel_idx].keycode, is_pressed)
            /\ pc_main' = "notify"
            /\ sk_status' = "idle"
            /\ UNCHANGED << channel_idx, activity_detected >>
    /\ hid_tx' = NoCall
    /\ delay_ms' = 0
    /\ UNCHANGED << onion_lut, touch_vars, ble_vars, comms_vars, stdin,
                    store_vars, load_err, is_pressed, sweep_edges, sweep_sent,
                    used_thr >>

\* ble_gatts_notify_custom(conn_handle, report_handle, om), onion_ble.c line
\* 146, then lines 66-67 of app_main
Notify ==
    /\ pc_main = "notify"
    /\ hid_tx' = [conn_handle |-> conn_handle, report |-> report,
                  keycode |-> arg_keycode, pressed |-> is_pressed, made |-> TRUE]
    /\ sk_status' = "notified"
    /\ activity_detected' = TRUE
    /\ NextChannel
    /\ report' = NoReport
    /\ delay_ms' = 0
    /\ sweep_sent' = TRUE
    /\ UNCHANGED << onion_lut, touch_vars, ble_vars, comms_vars, stdin,
                    store_vars, load_err, is_pressed, arg_keycode, sweep_edges,
                    used_thr >>

\* mutation of SweepDelay: the idle interval whatever the sweep saw
SweepDelayIdle(activity) == DELAY_IDLE

\* activity_detected ? 10 : 50
SweepDelay(activity) == IF activity THEN DELAY_ACTIVE ELSE DELAY_IDLE

\* vTaskDelay(pdMS_TO_TICKS(activity_detected ? 10 : 50)), then the next sweep
Delay ==
    /\ pc_main = "delay"
    /\ delay_ms' = SweepDelay(activity_detected)
    /\ used_thr' = 0
    /\ activity_detected' = FALSE
    /\ channel_idx' = 0
    /\ pc_main' = "has_changed"
    /\ hid_tx' = NoCall
    /\ sk_status' = "idle"
    /\ UNCHANGED << onion_lut, touch_vars, ble_vars, comms_vars, stdin,
                    store_vars, load_err, is_pressed, arg_keycode, report,
                    sweep_edges, sweep_sent >>

(***************************************************************************)
(* NimBLE host task (ble_gap_event)                                        *)
(***************************************************************************)
\* BLE_GAP_EVENT_CONNECT with the given status
GapConnect ==
    /\ TasksCreated
    /\ conn_handle = NO_CONN
    /\ \E h \in ConnHandles, status \in {0, 1} :
          IF status = 0
          THEN conn_handle' = h /\ status_led' = 1
          ELSE UNCHANGED ble_vars
    /\ UNCHANGED << onion_lut, touch_vars, comms_vars, stdin, store_vars,
                    load_err, main_vars >>

\* BLE_GAP_EVENT_DISCONNECT
GapDisconnect ==
    /\ TasksCreated
    /\ conn_handle # NO_CONN
    /\ conn_handle' = NO_CONN
    /\ status_led' = 0
    /\ UNCHANGED << onion_lut, touch_vars, comms_vars, stdin, store_vars,
                    load_err, main_vars >>

(***************************************************************************)
(* Comms task (onion_comms_task)                                           *)
(***************************************************************************)
\* mutation of EndsLine: a full buffer does not end the line
EndsLineNoLimit(c, ptr) == c \in {"\n", "\r"}

\* c == '\n' || c == '\r' || line_ptr >= sizeof(line) - 1
EndsLine(c, ptr) == c \in {"\n", "\r"} \/ ptr >= LINE_SIZE - 1

\* mutation of SetThreshold: the value is cut to 8 bits like the keycode
SetThresholdAsU8(lut, ch, thr) == [lut EXCEPT ![ch].threshold = ToU8(thr)]

\* local_lut_ptr[ch].threshold = thr
SetThreshold(lut, ch, thr) == [lut EXCEPT ![ch].threshold = ToU16(thr)]

\* mutation of SetKeycode: the int is stored without the conversion
SetKeycodeUnconverted(lut, ch, key) == [lut EXCEPT ![ch].keycode = key]

\* local_lut_ptr[ch].keycode = (uint8_t)key
SetKeycode(lut, ch, key) == [lut EXCEPT ![ch].keycode = ToU8(key)]

\* One iteration of the task loop: fgetc, line accumulation, command
\* dispatch, telemetry.  A SET that passes the channel check stops after the
\* threshold store (line 319); CommsSetKey and CommsSetSave finish the cycle.
CommsCycle ==
    /\ pc_comms = "read"
    /\ pre_lut' = onion_lut
    /\ pre_nvs' = nvs
    /\ save_err' = "NONE"
    /\ IF stdin = << >>
       THEN /\ out' = Telemetry(is_app_connected, last_raw_values)
            /\ dispatched' = << >>
            /\ UNCHANGED << stdin, line, is_app_connected, onion_lut, pc_comms,
                            set_args >>
       ELSE LET c == Head(stdin)
                cmd == IF line_ptr > 0 THEN CommandOf(line) ELSE "EMPTY"
                a == ScanSet(line)
            IN  /\ stdin' = Tail(stdin)
                /\ IF EndsLine(c, line_ptr)
                   THEN /\ dispatched' = line
                        /\ is_app_connected' =
                              IF cmd = "CONNECT" THEN TRUE
                              ELSE IF cmd = "DISCONNECT" THEN FALSE
                              ELSE is_app_connected
                        /\ onion_lut' =
                              IF cmd = "SET"
                              THEN SetThreshold(onion_lut, a.ch, a.thr)
                              ELSE onion_lut
                        /\ set_args' =
                              IF cmd = "SET"
                              THEN [ch |-> a.ch, thr |-> a.thr, key |-> a.key]
                              ELSE NoArgs
                        /\ pc_comms' = IF cmd = "SET" THEN "set_key" ELSE "read"
                        /\ line' = IF cmd = "SET" THEN line ELSE << >>
                        /\ out' =
                              IF cmd = "SET" THEN << >>
                              ELSE (IF cmd = "CONNECT"
                                    THEN CfgDump(onion_lut, 0) ELSE << >>)
                                   \o Telemetry(is_app_connected', last_raw_values)
                   ELSE /\ line' = Append(line, c)
                        /\ dispatched' = << >>
                        /\ out' = Telemetry(is_app_connected, last_raw_values)
                        /\ UNCHANGED << is_app_connected, onion_lut, pc_comms,
                                        set_args >>
    /\ UNCHANGED << touch_vars, ble_vars, nvs, saved_lut, saved_states,
                    save_failed, load_err, main_vars >>

\* line 320: the keycode store of a SET
CommsSetKey ==
    /\ pc_comms = "set_key"
    /\ onion_lut' = SetKeycode(onion_lut, set_args.ch, set_args.key)
    /\ pc_comms' = "set_save"
    /\ UNCHANGED << touch_vars, ble_vars, is_app_connected, line, out, set_args,
                    dispatched, pre_lut, pre_nvs, stdin, store_vars, load_err,
                    main_vars >>

\* line 323: onion_config_save(), then line_ptr = 0 and the telemetry section
CommsSetSave ==
    /\ pc_comms = "set_save"
    /\ \E fault \in SaveFaults :
          LET sav == ConfigSave(nvs, onion_lut, fault)
          IN  /\ nvs' = sav.store
              /\ onion_lut' = sav.lut
              /\ save_err' = sav.err
              /\ save_failed' = (save_failed \/ sav.err # "ESP_OK")
              /\ saved_lut' = SavedAfter(sav, onion_lut)
              /\ saved_states' =
                    IF sav.err = "ESP_OK" THEN last_states ELSE saved_states
    /\ line' = << >>
    /\ set_args' = NoArgs
    /\ out' = Telemetry(is_app_connected, last_raw_values)
    /\ pc_comms' = "read"
    /\ UNCHANGED << touch_vars, ble_vars, is_app_connected, dispatched,
                    pre_lut, pre_nvs, stdin, load_err, main_vars >>

(***************************************************************************)
(* Environment: the host on the serial link, and the platform reset        *)
(***************************************************************************)
\* the text "SET:<ch>,<thr>,<key>" a host writes for three integers
SetLine(ch, thr, key) ==
    SET_PREFIX \o Fmt_d(ch) \o << "," >> \o Fmt_d(thr) \o << "," >> \o Fmt_d(key)

\* the (channel, threshold, keycode) triples the host sends in a SET
HostSets ==
    { << 5, 1000, 4 >>, << 15, 65535, 255 >>, << 20, 100, 5 >>, << -1, 7, 7 >> }

HostLines ==
    {CONNECT_LINE, DISCONNECT_LINE}
        \cup {SetLine(t[1], t[2], t[3]) : t \in HostSets}

\* the line of the host in runs where the scan loop interleaves with the
\* comms task: with threshold 4050 both bursts of AdcBursts count as touched
CoreLines == {SetLine(0, 4050, 7)}

\* n filler bytes that are neither terminators nor part of any command
Pad(n) == [i \in 1 .. n |-> "x"]

\* SET:1,300,7 followed by filler up to the 127 bytes the buffer can hold
FullSetLine == SetLine(1, 300, 7) \o Pad(LINE_SIZE - 1 - Len(SetLine(1, 300, 7)))

\* byte streams of a host that does not respect the line length: a full
\* buffer followed by one more byte and a CONNECT, a line of exactly 127
\* bytes, a line of 130 bytes, an empty line, and a plain CONNECT
LongLines ==
    { FullSetLine \o << "Z" >> \o CONNECT_LINE,
      Pad(LINE_SIZE - 1),
      Pad(LINE_SIZE + 2),
      << >>,
      CONNECT_LINE }

\* lines that are no command of the protocol: characters after the third
\* integer, two integers only, a field that is no number, an unknown word, a
\* command word with a character appended
MalformedLines ==
    { SetLine(5, 1000, 4) \o << "x" >>,
      << "S", "E", "T", ":", "5", ",", "1", "0", "0", "0" >>,
      << "S", "E", "T", ":", "a", ",", "1", ",", "2" >>,
      << "H", "E", "L", "L", "O" >>,
      CONNECT_LINE \o << "X" >> }

NewLine == << "\n" >>

Terminators == { NewLine, << "\r", "\n" >> }

\* the host writes one line of L with a terminator of T, once the previous one has been read
HostSend(L, T) ==
    /\ stdin = << >>
    /\ \E l \in L, t \in T : stdin' = l \o t
    /\ UNCHANGED << onion_lut, touch_vars, ble_vars, comms_vars, store_vars,
                    load_err, main_vars >>

\* power loss or reset: RAM starts over, the Durable Store keeps its content
PlatformReset ==
    /\ pc_main # "config_init"
    /\ onion_lut' = DefaultLut
    /\ last_states' = AllFalse
    /\ last_raw_values' = [c \in Channels |-> 0]
    /\ sampled' = [c \in Channels |-> 0]
    /\ conn_handle' = NO_CONN
    /\ status_led' = 0
    /\ is_app_connected' = FALSE
    /\ line' = << >>
    /\ stdin' = << >>
    /\ out' = << >>
    /\ pc_main' = "config_init"
    /\ channel_idx' = 0
    /\ activity_detected' = FALSE
    /\ is_pressed' = FALSE
    /\ arg_keycode' = 0
    /\ report' = NoReport
    /\ pc_comms' = "none"
    /\ set_args' = NoArgs
    /\ hid_tx' = NoCall
    /\ sk_status' = "idle"
    /\ delay_ms' = 0
    /\ load_err' = "NONE"
    /\ save_err' = "NONE"
    /\ dispatched' = << >>
    /\ pre_lut' = DefaultLut
    /\ pre_nvs' = nvs
    /\ last_edge' = NoEdges
    /\ last_class' = AllFalse
    /\ sweep_edges' = {}
    /\ sweep_sent' = FALSE
    /\ used_thr' = 0
    /\ save_failed' = FALSE
    /\ UNCHANGED << nvs, saved_lut, saved_states >>

(***************************************************************************)
(* Specifications                                                          *)
(***************************************************************************)
BootStep == ConfigInit \/ BleInit \/ TouchInit

\* a first power-up with an empty Durable Store
InitFresh == Init /\ nvs = NotFound

\* all three tasks and the environment: a finger near channel 0, a host
\* that sends one SET, the transport, the platform reset
Next ==
    \/ BootStep
    \/ HasChanged({0})
    \/ TouchRead({0})
    \/ SendKeyReport
    \/ Notify
    \/ Delay
    \/ GapConnect
    \/ GapDisconnect
    \/ CommsCycle
    \/ CommsSetKey
    \/ CommsSetSave
    \/ HostSend(CoreLines, {NewLine})
    \/ PlatformReset

Spec == InitFresh /\ [][Next]_vars

\* the scan loop and the transport, with a silent host
NextScan ==
    \/ BootStep
    \/ HasChanged(ActiveChannels)
    \/ TouchRead(ActiveChannels)
    \/ SendKeyReport
    \/ Notify
    \/ Delay
    \/ GapConnect
    \/ GapDisconnect
    \/ CommsCycle
    \/ PlatformReset

SpecScan == Init /\ [][NextScan]_vars

\* the host protocol and the Durable Store: boot, then the comms task alone
\* (the main task is not scheduled once the scan loop is reached)
NextHost ==
    \/ BootStep
    \/ CommsCycle
    \/ CommsSetKey
    \/ CommsSetSave
    \/ HostSend(HostLines, Terminators)
    \/ PlatformReset

SpecHost == Init /\ [][NextHost]_vars

\* save and restart: the scan loop with a finger near channel 0 and no
\* transport connection, a host that sends one SET, and the platform reset
NextRestart ==
    \/ BootStep
    \/ HasChanged({0})
    \/ TouchRead({0})
    \/ SendKeyReport
    \/ Delay
    \/ CommsCycle
    \/ CommsSetKey
    \/ CommsSetSave
    \/ HostSend(CoreLines, {NewLine})
    \/ PlatformReset

SpecRestart == InitFresh /\ [][NextRestart]_vars

\* one session of the host application: CONNECT, then the SET of CoreLines
\* once the handshake is made, then DISCONNECT once the SET is in the keymap
HostSession ==
    \/ ~is_app_connected /\ onion_lut = DefaultLut
          /\ HostSend({CONNECT_LINE}, {NewLine})
    \/ is_app_connected /\ onion_lut = DefaultLut
          /\ HostSend(CoreLines, {NewLine})
    \/ is_app_connected /\ onion_lut # DefaultLut /\ pc_comms = "read"
          /\ HostSend({DISCONNECT_LINE}, {NewLine})

\* the scan loop is between two sweeps, about to sleep
BetweenSweeps == pc_main = "delay"

\* every operation that could touch the debounced states: the scan loop with
\* a finger near channel 0 and the dispatcher, and, scheduled while the scan
\* loop is between two sweeps, the transport, the comms task and the host
\* session
NextFrame ==
    \/ BootStep
    \/ HasChanged({0})
    \/ TouchRead({0})
    \/ SendKeyReport
    \/ Notify
    \/ Delay
    \/ BetweenSweeps /\ GapConnect
    \/ BetweenSweeps /\ GapDisconnect
    \/ BetweenSweeps /\ CommsCycle
    \/ BetweenSweeps /\ CommsSetKey
    \/ BetweenSweeps /\ CommsSetSave
    \/ BetweenSweeps /\ HostSession
    \/ PlatformReset

SpecFrame == InitFresh /\ [][NextFrame]_vars

\* the steps of the main task and of the comms task
MainStep ==
    \/ BootStep
    \/ HasChanged({0})
    \/ TouchRead({0})
    \/ SendKeyReport
    \/ Notify
    \/ Delay

\* the lines of the host in the runs with fair scheduling: no SET, so that a
\* cycle of the comms task is always the one step CommsCycle
LiveLines == {DISCONNECT_LINE}

CommsStep == CommsCycle

\* both tasks, the transport and the host, without resets
NextLive ==
    \/ MainStep
    \/ CommsStep
    \/ GapConnect
    \/ GapDisconnect
    \/ HostSend(LiveLines, {NewLine})

\* the scheduler lets each task run again and again: both block only in
\* vTaskDelay (OnionController.c line 76, onion_ble.c line 353)
SpecLive ==
    /\ InitFresh
    /\ [][NextLive]_vars
    /\ WF_vars(MainStep)
    /\ WF_vars(CommsStep)

\* line accumulation: boot on an empty store, then the comms task alone with
\* a host that sends over-long and malformed lines
NextLine ==
    \/ BootStep
    \/ CommsCycle
    \/ CommsSetKey
    \/ CommsSetSave
    \/ HostSend(LongLines \cup MalformedLines, Terminators)
    \/ PlatformReset

SpecLine == InitFresh /\ [][NextLine]_vars

\* SET triples whose threshold and keycode are outside the widths of the
\* record's fields, above and below
WrapSets == { << 5, 70000, 300 >>, << 15, -1, -2 >>, << 0, 65536, 256 >> }

WrapLines == { SetLine(t[1], t[2], t[3]) : t \in WrapSets }

\* integer conversion in the SET path: boot, then the comms task alone with
\* a host that sends SET lines of WrapSets
NextWrap ==
    \/ BootStep
    \/ CommsCycle
    \/ CommsSetKey
    \/ CommsSetSave
    \/ HostSend(WrapLines, {NewLine})
    \/ PlatformReset

SpecWrap == Init /\ [][NextWrap]_vars

(***************************************************************************)
(* Properties of the scan loop and the dispatcher (checked under SpecScan) *)
(***************************************************************************)
\* C1: whenever the scan loop dispatches a report for a channel, the pressed
\* flag it passes equals the debounced state the edge detection of that
\* channel recorded in the same scan step.
C1_DispatchedFlagIsEdgeState ==
    pc_main = "send_key_report" => is_pressed = last_states[channel_idx]

\* C2: a detection on channel c whose classification equals the state of the
\* latest edge of c reports no edge, and an edge reported for c never carries
\* the state of the edge of c before it.
C2_NoRepeatedEdge ==
    [][ pc_main = "has_changed" /\ pc_main' \in {"has_changed", "touch_read", "delay"}
        => /\ last_edge[channel_idx] = EdgeName(last_class'[channel_idx])
                => pc_main' # "touch_read"
           /\ pc_main' = "touch_read"
                => /\ last_edge'[channel_idx] = EdgeName(last_states'[channel_idx])
                   /\ last_edge'[channel_idx] # last_edge[channel_idx] ]_vars

\* a press edge on channel 0 in an earlier sweep, and the latest main step a
\* detection on channel 0 that classified it touched again and reported nothing
C2_Witness ==
    /\ pc_main = "has_changed"
    /\ channel_idx = 1
    /\ sk_status = "idle"
    /\ last_edge[0] = "press"
    /\ last_class[0]
    /\ last_raw_values[0] = 500

\* C3: between scan steps the stored debounced state of every channel equals
\* the value returned by the latest onion_touch_read on that channel (false
\* before the first).
C3_StoredStateIsLastClassification ==
    pc_main \in {"has_changed", "delay"}
        => \A c \in Channels : last_states[c] = last_class[c]

\* C9: a send_key_report that finds the transport not connected returns
\* without calling the notify primitive and leaves no report behind; notify
\* is only ever called from a send_key_report that passed the check.
C9_NoNotifyWhenDisconnected ==
    [][ /\ ( pc_main = "send_key_report" /\ conn_handle = NO_CONN
             /\ pc_main' # "send_key_report" )
           => /\ pc_main' # "notify"
              /\ ~hid_tx'.made
              /\ report' = NoReport
        /\ ( hid_tx'.made /\ hid_tx' # hid_tx ) => pc_main = "notify" ]_vars

\* a call of send_key_report for channel 0 that returned early, not connected
C9_Witness ==
    /\ sk_status = "returned_early"
    /\ conn_handle = NO_CONN
    /\ channel_idx = 1
    /\ ~hid_tx.made

\* C10: every report handed to the notify primitive is 8 bytes, byte 2 the
\* keycode when pressed and 0 when not, all other bytes 0.
C10_ReportLayout ==
    hid_tx.made
        => /\ Len(hid_tx.report) = 8
           /\ hid_tx.report[3] = (IF hid_tx.pressed THEN hid_tx.keycode ELSE 0)
           /\ \A i \in {1, 2, 4, 5, 6, 7, 8} : hid_tx.report[i] = 0

\* a press report for channel 0 (keycode 0x1A) has been handed to notify
C10_Witness ==
    /\ hid_tx.made
    /\ hid_tx.pressed
    /\ hid_tx.keycode = 26
    /\ hid_tx.report[3] = 26

\* C15: the connection handle every call of the notify primitive is given is
\* the handle of a connection the transport established, never the
\* not-connected sentinel 0xFFFF.
C15_NotifyHandleIsConnection ==
    hid_tx.made => hid_tx.conn_handle \in ConnHandles

\* C21: a report handed to notify for channel c while another channel is in
\* the pressed state reflects only the edge of c that triggered it: all
\* zero when that edge is a release, the keycode of c in byte 2 and zero
\* elsewhere when it is a press; bytes 3..7 are always zero.
C21_ReportReflectsOnlyItsEdge ==
    ( /\ hid_tx.made
      /\ \E b \in Channels \ {channel_idx - 1} : last_states[b] )
        => LET c == channel_idx - 1
           IN  hid_tx.report =
                  [i \in 1 .. REPORT_LEN |->
                      IF i = 3 /\ last_edge[c] = "press"
                      THEN onion_lut[c].keycode ELSE 0]

\* C11: the sleep that follows a sweep is 10 when at least one channel
\* produced an edge during that sweep and 50 when none did, whatever earlier
\* sweeps saw and whether or not a report of the sweep reached notify.
C11_AdaptiveCadence ==
    delay_ms # 0
        => delay_ms = (IF sweep_edges # {} THEN DELAY_ACTIVE ELSE DELAY_IDLE)

\* the sleep was 10 after a sweep whose only edge was on channel 1 and whose
\* report was dropped, channel 0 having had its edge in an earlier sweep
C11_Witness ==
    /\ delay_ms = DELAY_ACTIVE
    /\ sweep_edges = {1}
    /\ ~sweep_sent
    /\ last_edge[0] = "press"

(***************************************************************************)
(* Properties of the host protocol (checked under SpecHost)                *)
(***************************************************************************)
CFG_PREFIX == << "C", "F", "G", ":" >>

RAW_PREFIX == << "R", "A", "W", ":" >>

\* the three integers of an output line "CFG:<a>,<b>,<c>", << >> if the line
\* is not of that form
CfgFields(l) ==
    IF ~HasPrefix(l, CFG_PREFIX) THEN << >>
    ELSE LET a == ScanInt(l, Len(CFG_PREFIX) + 1)
             b == ScanInt(l, a.next + 1)
             c == ScanInt(l, b.next + 1)
         IN  IF /\ a.ok /\ MatchLit(l, a.next, ",")
                /\ b.ok /\ MatchLit(l, b.next, ",")
                /\ c.ok /\ c.next = Len(l) + 1
             THEN << a.val, b.val, c.val >>
             ELSE << >>

\* the positions of out that hold a line starting with prefix p
LinesWith(p) == {i \in 1 .. Len(out) : HasPrefix(out[i], p)}

\* the SET triples of the host whose values fit channel, uint16_t and uint8_t
ValidSets ==
    {t \in HostSets : t[1] \in Channels /\ t[2] \in 0 .. 65535 /\ t[3] \in 0 .. 255}

\* the SET triples of the host whose channel is outside 0..15
RangeSets == {t \in HostSets : t[1] \notin Channels}

\* C4: after SET:<ch>,<thr>,<key> with ch in 0..15, thr in 0..65535 and key in
\* 0..255 has been processed and saved, the table loaded from the saved blob
\* has threshold thr and keycode key at ch and, at every other channel, the
\* threshold and keycode the table had before the SET.
C4_SetThenLoad ==
    \A t \in ValidSets :
        ( /\ dispatched = SetLine(t[1], t[2], t[3])
          /\ pc_comms = "read"
          /\ save_err = "ESP_OK" )
            => LET got == GetBlob(nvs, DefaultLut, TRUE)
               IN  /\ got.err = "ESP_OK"
                   /\ got.lut[t[1]].threshold = t[2]
                   /\ got.lut[t[1]].keycode = t[3]
                   /\ \A c \in Channels \ {t[1]} :
                         Pairs(got.lut)[c] = Pairs(pre_lut)[c]

\* SET:5,1000,4 processed and saved on a table whose channel 5 held the
\* defaults and whose channel 15 held an earlier SET:15,65535,255
C4_Witness ==
    /\ dispatched = SetLine(5, 1000, 4)
    /\ pc_comms = "read"
    /\ save_err = "ESP_OK"
    /\ pre_lut[5].threshold = DEFAULT_THRESHOLD
    /\ pre_lut[5].keycode = 8
    /\ pre_lut[15].threshold = 65535
    /\ pre_lut[15].keycode = 255

\* C6: a SET line whose channel is outside 0..15 leaves all 16 records
\* unchanged, performs no save and prints nothing but the cycle's telemetry.
C6_OutOfRangeSetIgnored ==
    \A t \in RangeSets :
        dispatched = SetLine(t[1], t[2], t[3])
            => /\ pc_comms = "read"
               /\ onion_lut = pre_lut
               /\ save_err = "NONE"
               /\ nvs = pre_nvs
               /\ LinesWith(RAW_PREFIX) = 1 .. Len(out)
               /\ Len(out) <= 1

\* SET:20,100,5 has just been dispatched, with telemetry on and a keymap
\* that is not the default one
C6_Witness ==
    /\ dispatched = SetLine(20, 100, 5)
    /\ is_app_connected
    /\ out = << RawLine(last_raw_values) >>
    /\ onion_lut # DefaultLut

\* C7: processing CONNECT sets the handshake flag and prints exactly 16 CFG
\* lines, for channels 0..15 in ascending order, each with the threshold and
\* keycode the keymap holds for the channel; on the default keymap channel 0
\* is printed with threshold 3900 and keycode 0x1A.
C7_ConnectDumpsKeymap ==
    dispatched = CONNECT_LINE
        => /\ is_app_connected
           /\ LinesWith(CFG_PREFIX) = 1 .. MUX_CHANNELS_COUNT
           /\ \A i \in 1 .. MUX_CHANNELS_COUNT :
                 CfgFields(out[i]) =
                    << i - 1, onion_lut[i - 1].threshold, onion_lut[i - 1].keycode >>
           /\ onion_lut = DefaultLut
                 => \A i \in 1 .. MUX_CHANNELS_COUNT :
                       CfgFields(out[i]) = << i - 1, 3900, DefaultKeycodes[i] >>

\* CONNECT processed on the default keymap: the first line is CFG:0,3900,26
C7_Witness ==
    /\ dispatched = CONNECT_LINE
    /\ onion_lut = DefaultLut
    /\ out[1] = << "C", "F", "G", ":", "0", ",", "3", "9", "0", "0", ",", "2", "6" >>

\* C8: a RAW line is printed only by a cycle that ends with the handshake
\* flag true; the flag becomes true only by processing CONNECT and false only
\* by processing DISCONNECT (or a restart of the process).
C8_RawOnlyWhileHandshaken ==
    /\ [](LinesWith(RAW_PREFIX) # {} => is_app_connected)
    /\ [][ /\ (~is_app_connected /\ is_app_connected')
                => dispatched' = CONNECT_LINE
           /\ (is_app_connected /\ ~is_app_connected')
                => (dispatched' = DISCONNECT_LINE \/ pc_main' = "config_init") ]_vars

\* a cycle that read no command and printed the RAW line, the flag being true
C8_Witness ==
    /\ dispatched = << >>
    /\ is_app_connected
    /\ out = << RawLine(last_raw_values) >>

(***************************************************************************)
(* Progress of the two tasks (checked under SpecLive)                      *)
(***************************************************************************)
\* the scan loop is at the first channel of a sweep
SweepStart == pc_main = "has_changed" /\ channel_idx = 0

\* the scan loop has swept all 16 channels and is about to sleep
SweepDone == pc_main = "delay"

\* C22: with both tasks scheduled fairly, a sweep that has started is
\* eventually completed and a completed sweep is eventually followed by the
\* start of the next, and every complete line the host has put on the link
\* is eventually dispatched, whatever the other task and the transport do.
C22_NoStall ==
    /\ SweepStart ~> SweepDone
    /\ SweepDone ~> SweepStart
    /\ \A l \in LiveLines : (stdin = l \o NewLine) ~> (dispatched = l)

\* a line of the host has just been dispatched while the scan loop was in the
\* middle of a scan step, on its way to the dispatcher, with no connection
C22_Witness ==
    /\ dispatched \in LiveLines
    /\ pc_main = "send_key_report"
    /\ channel_idx = 0
    /\ conn_handle = NO_CONN

(***************************************************************************)
(* Frame of the debounced states (checked under SpecFrame)                 *)
(***************************************************************************)
\* the step is a restart of the process, where RAM is initialised
IsRestart == pc_main # "config_init" /\ pc_main' = "config_init"

\* C20: apart from the initialisation of RAM at a restart, the debounced
\* state of a channel changes only in a step of edge detection on that
\* channel that reports an edge: command processing, telemetry, load, save,
\* the dispatcher and the transport leave every channel's state as it is,
\* and edge detection on one channel leaves all the others.
C20_PressedOnlyByEdgeDetection ==
    [][ ~IsRestart
        => \A c \in Channels :
              last_states'[c] # last_states[c]
                => /\ pc_main = "has_changed"
                   /\ pc_main' = "touch_read"
                   /\ channel_idx = c ]_vars

\* channel 0 is in the pressed state, its report was notified, and the comms
\* task has since carried out and saved SET:0,4050,7 with telemetry on
C20_Witness ==
    /\ last_states[0]
    /\ last_edge[0] = "press"
    /\ sweep_sent
    /\ dispatched \in CoreLines
    /\ pc_comms = "read"
    /\ save_err = "ESP_OK"
    /\ is_app_connected
    /\ LinesWith(RAW_PREFIX) # {}

(***************************************************************************)
(* Properties of line accumulation (checked under SpecLine)                *)
(***************************************************************************)
\* C16: the accumulation index stays within 0..127; a cycle that reads a
\* non-terminator byte while 127 bytes are accumulated dispatches exactly
\* those 127 bytes as one line; a cycle that reads a terminator with an
\* empty buffer dispatches nothing and changes nothing; and once the cycle
\* of a dispatched line is over the buffer is empty.
C16_LineBuffer ==
    /\ [](line_ptr \in 0 .. (LINE_SIZE - 1))
    /\ []((pc_comms = "read" /\ dispatched # << >>) => line = << >>)
    /\ [][ ( /\ pc_comms = "read" /\ pc_comms' # "none"
              /\ stdin # << >> /\ stdin' = Tail(stdin) )
            => /\ (Head(stdin) \notin {"\n", "\r"} /\ line_ptr = LINE_SIZE - 1)
                    => /\ dispatched' = line
                       /\ Len(dispatched') = LINE_SIZE - 1
                       /\ line' \in {<< >>, line}
               /\ (Head(stdin) \in {"\n", "\r"} /\ line_ptr = 0)
                    => /\ dispatched' = << >>
                       /\ line' = << >>
                       /\ pc_comms' = "read"
                       /\ onion_lut' = onion_lut
                       /\ is_app_connected' = is_app_connected
                       /\ nvs' = nvs
                       /\ LinesWith(CFG_PREFIX)' = {} ]_vars

\* the 127 bytes that begin with SET:1,300,7 were dispatched when the byte Z
\* arrived, the SET was carried out, and the CONNECT that followed Z is next
C16_Witness ==
    /\ dispatched = FullSetLine
    /\ Len(dispatched) = LINE_SIZE - 1
    /\ pc_comms = "read"
    /\ line = << >>
    /\ onion_lut[1].threshold = 300
    /\ HasPrefix(stdin, CONNECT_LINE)

\* a decimal integer, with an optional minus sign, at position i of s: the
\* position after it, 0 if there is none
StrictInt(s, i) ==
    LET k == IF i <= Len(s) /\ s[i] = "-" THEN i + 1 ELSE i
    IN  IF k <= Len(s) /\ IsDigit(s[k]) THEN ScanDigits(s, k, 0).next ELSE 0

\* s is SET:<int>,<int>,<int> and nothing else
IsExactSet(s) ==
    /\ HasPrefix(s, SET_PREFIX)
    /\ LET a == StrictInt(s, Len(SET_PREFIX) + 1)
           b == IF a # 0 /\ MatchLit(s, a, ",") THEN StrictInt(s, a + 1) ELSE 0
           c == IF b # 0 /\ MatchLit(s, b, ",") THEN StrictInt(s, b + 1) ELSE 0
       IN  c = Len(s) + 1

\* C17: a cycle that dispatches a line which is neither CONNECT nor
\* DISCONNECT nor SET:<int>,<int>,<int> with nothing else leaves the keymap,
\* the handshake flag and the Durable Store unchanged, starts no SET and
\* prints no CFG line.
C17_MalformedLineIgnored ==
    [][ ( /\ pc_comms = "read" /\ pc_comms' # "none"
          /\ dispatched' # << >>
          /\ dispatched' \notin {CONNECT_LINE, DISCONNECT_LINE}
          /\ ~IsExactSet(dispatched') )
        => /\ onion_lut' = onion_lut
           /\ is_app_connected' = is_app_connected
           /\ nvs' = nvs
           /\ pc_comms' = "read"
           /\ LinesWith(CFG_PREFIX)' = {} ]_vars

(***************************************************************************)
(* Properties of the boot-time load (checked under SpecHost)               *)
(***************************************************************************)
\* a load of the store as it is now, by a process that has just started
FreshLoad == GetBlob(nvs, DefaultLut, TRUE)

C18_WriteThrough ==
    ( /\ pc_comms = "read"
      /\ load_err \in {"ESP_OK", "ESP_ERR_NVS_NOT_FOUND"}
      /\ ~save_failed )
        => /\ nvs.found
           /\ Len(nvs.bytes) = LUT_SIZE
           /\ Pairs(LutOfBytes(nvs.bytes)) = Pairs(onion_lut)

\* the main task is in the scan loop
Scanning ==
    pc_main \in {"has_changed", "touch_read", "send_key_report", "notify", "delay"}

\* the table is the compiled-in one as a whole, or the blob the process found
\* at boot as a whole
WholeTable(lut, boot_store) ==
    \/ lut = DefaultLut
    \/ /\ boot_store.found
       /\ Len(boot_store.bytes) = LUT_SIZE
       /\ lut = LutOfBytes(boot_store.bytes)

\* C19: the comms task exists and the scan loop runs only after the boot-time
\* load has completed, the load is never run while either exists, and the
\* keymap the comms task finds when it is created is the compiled-in table as
\* a whole or the persisted table as a whole, never some records of one and
\* some of the other.
C19_LoadBeforeReaders ==
    /\ []((TasksCreated \/ Scanning) => load_err # "NONE")
    /\ [][ /\ load_err' # load_err /\ load_err' # "NONE"
                => (pc_comms = "none" /\ ~Scanning)
           /\ (~TasksCreated /\ TasksCreated')
                => WholeTable(onion_lut', pre_nvs') ]_vars

\* C13: when the blob the process finds at boot is corrupt (it cannot be
\* read, or its size is not that of the 16-record table), the load leaves all
\* 16 records at the compiled-in defaults and writes nothing to the store.
C13_CorruptKeepsDefaults ==
    ( /\ pc_main = "ble_init"
      /\ pre_nvs.found
      /\ (Len(pre_nvs.bytes) # LUT_SIZE \/ load_err = "ESP_FAIL") )
        => /\ onion_lut = DefaultLut
           /\ nvs = pre_nvs
           /\ save_err = "NONE"

(***************************************************************************)
(* Properties of save and restart (checked under SpecRestart)              *)
(***************************************************************************)
\* the SET lines of the host of SpecRestart that address channel c
SetsOf(c) == {l \in CoreLines : CommandOf(l) = "SET" /\ ScanSet(l).ch = c}

\* the (keycode, threshold) configurations channel c is ever given as a
\* whole: the compiled-in one and those of the host's SET lines
ConfigsOf(c) ==
    {Pairs(DefaultLut)[c]}
        \cup {<< ToU8(ScanSet(l).key), ToU16(ScanSet(l).thr) >> : l \in SetsOf(c)}

\* C14: when the scan loop has dispatched for channel c, the keycode it
\* passed and the threshold that classified the edge of that scan step are
\* the two fields of one configuration of c, never the threshold of one
\* configuration with the keycode of another.
C14_ScanSeesOneConfiguration ==
    sk_status \in {"returned_early", "notified"}
        => << arg_keycode, used_thr >> \in ConfigsOf(channel_idx - 1)

\* C5: when the process restarts after a successful save and the load
\* succeeds, the 16 (keycode, threshold) pairs of the table are those of the
\* table that was saved, channel by channel, and the debounced state of
\* every channel is false.
C5_SaveLoadRoundTrip ==
    ( /\ pc_main = "ble_init"
      /\ load_err = "ESP_OK"
      /\ saved_lut.known )
        => /\ Pairs(onion_lut) = Pairs(saved_lut.lut)
           /\ last_states = AllFalse

\* restarted and loaded after SET:0,4050,7 was saved while channel 0 was in
\* the pressed state
C5_Witness ==
    /\ pc_main = "ble_init"
    /\ load_err = "ESP_OK"
    /\ saved_lut.known
    /\ saved_states[0]
    /\ onion_lut[0].threshold = 4050
    /\ onion_lut[0].keycode = 7

\* a step of the main task that classifies channel channel_idx: the call of
\* onion_touch_read inside onion_touch_has_changed, or the one of line 61
Classifies ==
    /\ pc_main \in {"has_changed", "touch_read"}
    /\ pc_main' # pc_main \/ channel_idx' # channel_idx

\* C23: every classification of channel c stores the sample it just took
\* into slot c of the raw sample cache and leaves the other 15 slots as they
\* were, so slot c always holds the most recent sample taken on c, 0 before
\* the first; every other step of a running process, those of the comms task
\* with its telemetry included, leaves the whole cache as it is.
C23_RawCacheHoldsLatestSample ==
    /\ [](last_raw_values = sampled)
    /\ [][ ~IsRestart
            => IF Classifies
               THEN /\ last_raw_values'[channel_idx] = sampled'[channel_idx]
                    /\ \A c \in Channels \ {channel_idx} :
                          last_raw_values'[c] = last_raw_values[c]
               ELSE last_raw_values' = last_raw_values ]_vars

\* between two sweeps, with telemetry just printed from the cache: channel 0
\* gave a press edge and its second sample, 4000, replaced the first in slot
\* 0, while slot 15 holds the idle sample
C23_Witness ==
    /\ pc_main = "delay"
    /\ out = << RawLine(last_raw_values) >>
    /\ last_edge[0] = "press"
    /\ ~last_class[0]
    /\ last_raw_values[0] = 4000
    /\ last_raw_values[15] = 4095

\* the SET triples within range that a host of the model sends
AppliedSets == ValidSets \cup {<< 0, 4050, 7 >>}

\* C24: when the save of a SET fails (the store could not be opened, written
\* or committed), the keymap in memory is what the SET made of it: the
\* channel's threshold and keycode are the new ones and every other record is
\* as before the line; the save itself changed no record, it was made once
\* (the store holds what it held before the line, or the one blob that save
\* wrote), and the comms task is back at reading the link with the error
\* dropped.
C24_FailedSaveKeepsMemory ==
    /\ [](\A t \in AppliedSets :
            ( /\ dispatched = SetLine(t[1], t[2], t[3])
              /\ pc_comms = "read"
              /\ save_err = "ESP_FAIL" )
                => /\ onion_lut[t[1]].threshold = t[2]
                   /\ onion_lut[t[1]].keycode = t[3]
                   /\ \A c \in Channels \ {t[1]} : onion_lut[c] = pre_lut[c]
                   /\ nvs \in {pre_nvs, Blob(LutBytes(onion_lut))})
    /\ [][ (pc_comms = "set_save" /\ pc_comms' = "read")
            => onion_lut' = onion_lut ]_vars

\* the save of SET:0,4050,7 failed and left the store without the new record,
\* and the scan loop has since classified a sample of 4000 on channel 0 as a
\* press with the threshold 4050 that is only in memory
C24_Witness ==
    /\ dispatched = SetLine(0, 4050, 7)
    /\ pc_comms = "read"
    /\ save_err = "ESP_FAIL"
    /\ nvs = pre_nvs
    /\ pc_main = "touch_read"
    /\ channel_idx = 0
    /\ used_thr = 4050
    /\ last_raw_values[0] = 4000
    /\ last_edge[0] = "press"

\* C25: a SET line with a channel in 0..15 is applied whatever its threshold
\* and keycode: once the line is processed the channel's threshold is the
\* parsed threshold modulo 2^16 and its keycode the parsed keycode modulo
\* 2^8, the other records are as before the line, and every stored threshold
\* is in 0..65535 and every stored keycode in 0..255.
C25_OutOfRangeSetWraps ==
    /\ \A c \in Channels :
          /\ onion_lut[c].threshold \in 0 .. 65535
          /\ onion_lut[c].keycode \in 0 .. 255
    /\ \A t \in WrapSets :
          ( /\ dispatched = SetLine(t[1], t[2], t[3])
            /\ pc_comms = "read" )
              => /\ onion_lut[t[1]].threshold = t[2] % 65536
                 /\ onion_lut[t[1]].keycode = t[3] % 256
                 /\ \A c \in Channels \ {t[1]} : onion_lut[c] = pre_lut[c]

\* SET:5,70000,300 processed and saved on a table that an earlier SET:15,-1,-2
\* had changed: channel 5 holds 4464 and 44, channel 15 holds 65535 and 254
C25_Witness ==
    /\ dispatched = SetLine(5, 70000, 300)
    /\ pc_comms = "read"
    /\ save_err = "ESP_OK"
    /\ onion_lut[5].threshold = 4464
    /\ onion_lut[5].keycode = 44
    /\ onion_lut[15].threshold = 65535
    /\ onion_lut[15].keycode = 254
    /\ pre_lut[5].threshold = DEFAULT_THRESHOLD

====
